---------------------------- MODULE Spec2Model ----------------------------
(***************************************************************************)
(* A model of dc6.py: the DC6 sprite container (DC6.from_bytes, DC6.dump,  *)
(* the DC6.frames setter), the scanline run-length decoder                 *)
(* (Frame.decode_frame) and the byte cursor (MemoryStream.read).           *)
(*                                                                         *)
(* Three specifications share the module:                                  *)
(*   SpecFrame   one call of Frame.decode_frame, one step per loop turn    *)
(*   SpecStream  a MemoryStream and a sequence of read(size) calls         *)
(*   Spec        a DC6 document: from_bytes, frames setter, dump, reload   *)
(***************************************************************************)
EXTENDS Integers, Sequences, FiniteSets, TLC

VARIABLES
    df,       \* SpecFrame: the Frame's fields and decode_frame's locals
    ms,       \* SpecStream: the MemoryStream (data, position) and read's result
    dc        \* Spec: the document session (input, DC6 object, dumps)

vars == <<df, ms, dc>>

(***************************************************************************)
(* Module constants of dc6.py                                              *)
(***************************************************************************)
END_OF_SCANLINE == 128
MAX_RUN_LENGTH == 127
TERMINATOR_SIZE == 3

\* class ScanlineState
END_OF_LINE == 0
RUN_OF_TRANSPARENT_PIXELS == 1
RUN_OF_OPAQUE_PIXELS == 2

(***************************************************************************)
(* Bounds of the model                                                     *)
(***************************************************************************)
MaxLen == 5          \* longest FrameData explored by SpecFrame
MaxDim == 2          \* largest Width and Height explored by SpecFrame
MaxData == 3         \* longest MemoryStream buffer explored by SpecStream
MaxRead == 3         \* largest size passed to read by SpecStream
MaxCalls == 3        \* number of read calls explored by SpecStream
MaxDirs == 2         \* most directions of a serialized document given to from_bytes
MaxFrames == 2       \* most frames per direction of such a document
MaxNew == 2          \* longest list assigned through the frames setter
MaxCut == 6          \* most bytes cut off the end of a serialized document

\* The byte values FrameData is drawn from: opaque controls 0..2 (also used
\* as index bytes), the end-of-line marker, and a transparent run of 1.
ByteVals == {0, 1, 2, 128, 129}

(***************************************************************************)
(* Python built-ins the code relies on                                     *)
(***************************************************************************)
\* IndexData is None until decode_frame ran; no byte string equals it.
None == <<-1>>

\* bytearray(n): n zero bytes
Zeros(n) == [i \in 1..n |-> 0]

\* a & b on non-negative integers
RECURSIVE BitAnd(_, _)
BitAnd(a, b) ==
    IF a = 0 \/ b = 0 THEN 0
    ELSE (a % 2) * (b % 2) + 2 * BitAnd(a \div 2, b \div 2)

\* buf[i] = v on a bytearray: a negative index counts from the end, an index
\* outside -len..len-1 raises IndexError.
SetItem(buf, i, v) ==
    LET n == Len(buf) IN
    IF 0 <= i /\ i < n THEN [raised |-> FALSE, buf |-> [buf EXCEPT ![i + 1] = v]]
    ELSE IF -n <= i /\ i < 0 THEN [raised |-> FALSE, buf |-> [buf EXCEPT ![n + i + 1] = v]]
    ELSE [raised |-> TRUE, buf |-> buf]

\* data[start:end] on bytes, for 0 <= start: clipped to the buffer
Slice(data, start, end) ==
    LET hi == IF end < Len(data) THEN end ELSE Len(data) IN
    IF start >= hi THEN <<>> ELSE SubSeq(data, start + 1, hi)

(***************************************************************************)
(* MemoryStream.read: the bytes returned and the position afterwards.      *)
(***************************************************************************)
\* mutant: the position advances by the number of bytes returned
read_advance_by_returned(data, position, size) ==
    LET got == Slice(data, position, position + size) IN
    [ret |-> got, position |-> position + Len(got)]

read(data, position, size) ==
    LET start == position
        end == start + size
    IN [ret |-> Slice(data, start, end), position |-> end]

(***************************************************************************)
(* Frame.get_scanline_type                                                 *)
(***************************************************************************)
get_scanline_type(b) ==
    IF b = END_OF_SCANLINE THEN END_OF_LINE
    ELSE IF BitAnd(b, END_OF_SCANLINE) > 0 THEN RUN_OF_TRANSPARENT_PIXELS
    ELSE RUN_OF_OPAQUE_PIXELS

(***************************************************************************)
(* Frame.decode_frame, one loop turn at a time.  A record d holds the      *)
(* Frame's fields (Width, Height, FrameData, IndexData) and the locals     *)
(* (index_data, x, y, offset), run = the turns left of `for _ in range(b)`,*)
(* and pc: "while" (line 64), "for" (line 100), "done" (after line 112),   *)
(* "raised" (IndexError out of line 107).                                  *)
(***************************************************************************)
\* mutant: rows filled top-down (y starts at 0 instead of Height - 1)
dec_init_top_down(Width, Height, FrameData) ==
    [Width |-> Width, Height |-> Height, FrameData |-> FrameData,
     IndexData |-> None,
     index_data |-> Zeros(Width * Height),
     x |-> 0, y |-> 0, offset |-> 0, run |-> 0, pc |-> "while"]

dec_init(Width, Height, FrameData) ==
    [Width |-> Width, Height |-> Height, FrameData |-> FrameData,
     IndexData |-> None,
     index_data |-> Zeros(Width * Height),
     x |-> 0, y |-> Height - 1, offset |-> 0, run |-> 0, pc |-> "while"]

\* line 112: self.IndexData = bytes(index_data)
set_index_data(d) == [d EXCEPT !.IndexData = d.index_data, !.pc = "done"]

\* lines 67-68: the while loop ends with the FrameData
while_exit(d) == set_index_data(d)

\* lines 78-86, after the control byte was read (lines 71-72)
end_of_line(d) ==
    IF d.y < 0 THEN set_index_data([d EXCEPT !.offset = d.offset + 1])
    ELSE [d EXCEPT !.offset = d.offset + 1, !.y = d.y - 1, !.x = 0]

\* lines 89-94
transparent_run(d) ==
    LET b == d.FrameData[d.offset + 1] IN
    [d EXCEPT !.offset = d.offset + 1, !.x = d.x + BitAnd(b, MAX_RUN_LENGTH)]

\* lines 97-100: enter the for loop with b turns
opaque_run(d) ==
    LET b == d.FrameData[d.offset + 1] IN
    [d EXCEPT !.offset = d.offset + 1, !.run = b, !.pc = "for"]

\* the position line 107 writes to
pixel_index(d) == d.x + d.y * d.Width

\* lines 103-109: one turn of the for loop that has a byte to read
opaque_pixel(d) ==
    LET w == SetItem(d.index_data, pixel_index(d), d.FrameData[d.offset + 1]) IN
    IF w.raised THEN [d EXCEPT !.pc = "raised"]
    ELSE [d EXCEPT !.index_data = w.buf, !.offset = d.offset + 1,
                   !.x = d.x + 1, !.run = d.run - 1]

\* line 100 exhausted, or the break of lines 103-104: back to the while loop
opaque_exit(d) == [d EXCEPT !.run = 0, !.pc = "while"]

\* the guards of the turns
AtEnd(d) == d.offset >= Len(d.FrameData)
AtControl(d, t) ==
    d.pc = "while" /\ ~AtEnd(d) /\ get_scanline_type(d.FrameData[d.offset + 1]) = t
InRun(d) == d.pc = "for" /\ d.run > 0 /\ ~AtEnd(d)

dec_step(d) ==
    IF d.pc = "while" THEN
        IF AtEnd(d) THEN while_exit(d)
        ELSE IF AtControl(d, END_OF_LINE) THEN end_of_line(d)
        ELSE IF AtControl(d, RUN_OF_TRANSPARENT_PIXELS) THEN transparent_run(d)
        ELSE opaque_run(d)
    ELSE IF InRun(d) THEN opaque_pixel(d)
    ELSE opaque_exit(d)

RECURSIVE dec_run(_)
dec_run(d) == IF d.pc \in {"done", "raised"} THEN d ELSE dec_run(dec_step(d))

\* The whole call: the decoded record; pc = "raised" when IndexError escaped.
decode_frame(Width, Height, FrameData) == dec_run(dec_init(Width, Height, FrameData))

(***************************************************************************)
(* struct.pack / struct.unpack for the formats '<I' and '<i'.  Values stay *)
(* below 2^31 in this model, so '<i' is never out of range and '<I' is out *)
(* of range exactly for a negative value.                                  *)
(***************************************************************************)
LE4(v) == <<v % 256, (v \div 256) % 256, (v \div 65536) % 256, (v \div 16777216) % 256>>

pack_I(v) == [raised |-> v < 0, bytes |-> LE4(v)]
pack_i(v) == [raised |-> FALSE, bytes |-> LE4(v)]

unpack_I(b) ==
    IF Len(b) # 4 THEN [raised |-> TRUE, value |-> 0]
    ELSE [raised |-> FALSE,
          value |-> b[1] + 256 * b[2] + 65536 * b[3] + 16777216 * b[4]]

unpack_i(b) ==
    IF Len(b) # 4 THEN [raised |-> TRUE, value |-> 0]
    ELSE [raised |-> FALSE,
          value |-> b[1] + 256 * b[2] + 65536 * b[3]
                    + 16777216 * (IF b[4] >= 128 THEN b[4] - 256 ELSE b[4])]

(***************************************************************************)
(* Frame, Direction (its Frames list) and DC6 objects                      *)
(***************************************************************************)
\* Frame.__init__
Frame ==
    [Flipped |-> 0, Width |-> 0, Height |-> 0, OffsetX |-> 0, OffsetY |-> 0,
     Unknown |-> 0, NextBlock |-> 0, Length |-> 0,
     FrameData |-> <<>>, Terminator |-> <<>>, IndexData |-> None]

\* DC6.__init__; Directions[i] is the Frames list of the i-th Direction
DC6 ==
    [Version |-> 0, Flags |-> 0, Encoding |-> 0, Termination |-> <<0, 0, 0, 0>>,
     Directions |-> <<>>]

\* the frames of all directions, direction-major (lines 229-231, 514-515)
RECURSIVE AllFrames(_)
AllFrames(Directions) ==
    IF Directions = <<>> THEN <<>>
    ELSE Head(Directions) \o AllFrames(Tail(Directions))

(***************************************************************************)
(* DC6.decode_header.  Every operator below takes the result of a read or  *)
(* of an earlier stage as a parameter, so that each stage is written once. *)
(***************************************************************************)
\* n successive stream.read(4): the byte strings read and the position after
RECURSIVE read_words(_, _, _)
read_words(data, position, n) ==
    IF n <= 0 THEN [rets |-> <<>>, position |-> position]
    ELSE LET rest == read_words(data, read(data, position, 4).position, n - 1)
         IN [rets |-> <<read(data, position, 4).ret>> \o rest.rets,
             position |-> rest.position]

\* lines 317-333, w being the four reads of the header
header_fields(w) ==
    LET Version == unpack_i(w.rets[1])
        Flags == unpack_I(w.rets[2])
        Encoding == unpack_I(w.rets[3])
    IN [raised |-> Version.raised \/ Flags.raised \/ Encoding.raised,
        Version |-> Version.value, Flags |-> Flags.value,
        Encoding |-> Encoding.value, Termination |-> w.rets[4],
        position |-> w.position]

decode_header(data, position) == header_fields(read_words(data, position, 4))

(***************************************************************************)
(* DC6.decode_body                                                         *)
(***************************************************************************)
\* lines 394-403, w being the eight reads of the frame's header fields
frame_fields(data, w) ==
    LET Length == unpack_I(w.rets[8]).value
        FrameData == read(data, w.position, Length)
        Terminator == read(data, w.position + Length, TERMINATOR_SIZE)
    IN IF \E i \in 1..8 : Len(w.rets[i]) # 4
       THEN [raised |-> TRUE, frame |-> Frame, position |-> w.position]
       ELSE [raised |-> FALSE,
             frame |-> [Flipped |-> unpack_I(w.rets[1]).value,
                        Width |-> unpack_I(w.rets[2]).value,
                        Height |-> unpack_I(w.rets[3]).value,
                        OffsetX |-> unpack_i(w.rets[4]).value,
                        OffsetY |-> unpack_i(w.rets[5]).value,
                        Unknown |-> unpack_I(w.rets[6]).value,
                        NextBlock |-> unpack_I(w.rets[7]).value,
                        Length |-> Length,
                        FrameData |-> FrameData.ret, Terminator |-> Terminator.ret,
                        IndexData |-> None],
             position |-> Terminator.position]

\* lines 391-403: one frame record read from the stream
read_frame(data, position) == frame_fields(data, read_words(data, position, 8))

\* lines 385-406: frames idx..total_frames-1 read and appended to their
\* direction; f is the frame record read for idx.
RECURSIVE read_frames(_, _, _, _, _, _)
RECURSIVE append_frame(_, _, _, _, _, _)
\* mutant: the frame is put at the front of its direction
append_frame_prepended(data, f, idx, total_frames, frames_per_direction, Directions) ==
    LET dir_idx == idx \div frames_per_direction IN
    IF f.raised
    THEN [raised |-> TRUE, Directions |-> Directions, position |-> f.position]
    ELSE read_frames(data, f.position, idx + 1, total_frames, frames_per_direction,
                     [Directions EXCEPT ![dir_idx + 1] = <<f.frame>> \o @])

append_frame(data, f, idx, total_frames, frames_per_direction, Directions) ==
    LET dir_idx == idx \div frames_per_direction IN
    IF f.raised
    THEN [raised |-> TRUE, Directions |-> Directions, position |-> f.position]
    ELSE read_frames(data, f.position, idx + 1, total_frames, frames_per_direction,
                     [Directions EXCEPT ![dir_idx + 1] = Append(@, f.frame)])

read_frames(data, position, idx, total_frames, frames_per_direction, Directions) ==
    IF idx >= total_frames
    THEN [raised |-> FALSE, Directions |-> Directions, position |-> position]
    ELSE append_frame(data, read_frame(data, position), idx, total_frames,
                      frames_per_direction, Directions)

\* line 413 on one frame, d being the finished decode_frame call
decoded_frame(f, d) ==
    [raised |-> d.pc = "raised", frame |-> [f EXCEPT !.IndexData = d.IndexData]]

\* mutant: the frame is not decoded
decode_one_skipped(f) == [raised |-> FALSE, frame |-> f]

decode_one(f) == decoded_frame(f, decode_frame(f.Width, f.Height, f.FrameData))

\* lines 411-413: frame.decode_frame() on every frame of a direction, in
\* order; the first IndexError ends the loop.
RECURSIVE decode_frames(_, _)
RECURSIVE decode_next(_, _, _)
decode_next(frames, done, r) ==
    IF r.raised THEN [raised |-> TRUE, frames |-> done]
    ELSE decode_frames(Tail(frames), Append(done, r.frame))

decode_frames(frames, done) ==
    IF frames = <<>> THEN [raised |-> FALSE, frames |-> done]
    ELSE decode_next(frames, done, decode_one(Head(frames)))

\* lines 409-413: every direction, in order
RECURSIVE decode_directions(_, _)
RECURSIVE decode_next_direction(_, _, _)
decode_next_direction(Directions, done, r) ==
    IF r.raised THEN [raised |-> TRUE, Directions |-> done]
    ELSE decode_directions(Tail(Directions), Append(done, r.frames))

decode_directions(Directions, done) ==
    IF Directions = <<>> THEN [raised |-> FALSE, Directions |-> done]
    ELSE decode_next_direction(Directions, done, decode_frames(Head(Directions), <<>>))

\* line 375
total_frames_of(num_directions, frames_per_direction) ==
    num_directions * frames_per_direction

\* mutant: one Direction per frame of a direction instead of per direction
new_directions_swapped(num_directions, frames_per_direction) ==
    [i \in 1..frames_per_direction |-> <<>>]

\* line 378: self.Directions = [Direction() for _ in range(num_directions)]
new_directions(num_directions, frames_per_direction) ==
    [i \in 1..num_directions |-> <<>>]

\* lines 409-413, body being the frames read by lines 385-406
body_decoded(body, decoded) ==
    IF decoded.raised
    THEN [error |-> "IndexError", Directions |-> <<>>, position |-> body.position]
    ELSE [error |-> "", Directions |-> decoded.Directions, position |-> body.position]

body_read(body) ==
    IF body.raised
    THEN [error |-> "struct.error", Directions |-> <<>>, position |-> body.position]
    ELSE body_decoded(body, decode_directions(body.Directions, <<>>))

\* lines 375-406: the pointers are read and discarded, then the frames read
body_frames(data, position, num_directions, frames_per_direction) ==
    body_read(
        read_frames(data,
            read_words(data, position,
                total_frames_of(num_directions, frames_per_direction)).position,
            0, total_frames_of(num_directions, frames_per_direction),
            frames_per_direction,
            new_directions(num_directions, frames_per_direction)))

\* lines 369-372, w being the two reads of the counts
body_counts(data, w) ==
    IF unpack_I(w.rets[1]).raised \/ unpack_I(w.rets[2]).raised
    THEN [error |-> "struct.error", Directions |-> <<>>, position |-> w.position]
    ELSE body_frames(data, w.position,
                     unpack_I(w.rets[1]).value, unpack_I(w.rets[2]).value)

decode_body(data, position) == body_counts(data, read_words(data, position, 2))

(***************************************************************************)
(* DC6.from_bytes: error = "" when a document is returned                  *)
(***************************************************************************)
document(h, b) ==
    IF b.error # ""
    THEN [error |-> b.error, doc |-> DC6, position |-> b.position]
    ELSE [error |-> "",
          doc |-> [Version |-> h.Version, Flags |-> h.Flags, Encoding |-> h.Encoding,
                   Termination |-> h.Termination, Directions |-> b.Directions],
          position |-> b.position]

decoded_header(data, h) ==
    IF h.raised
    THEN [error |-> "struct.error", doc |-> DC6, position |-> h.position]
    ELSE document(h, decode_body(data, h.position))

from_bytes(data) == decoded_header(data, decode_header(data, 0))

(***************************************************************************)
(* DC6.dump and DC6File.to_bytes                                           *)
(***************************************************************************)
\* several struct.pack results appended to the output: any of them may raise
RECURSIVE packed(_)
packed(parts) ==
    IF parts = <<>> THEN [raised |-> FALSE, bytes |-> <<>>]
    ELSE LET rest == packed(Tail(parts)) IN
         [raised |-> Head(parts).raised \/ rest.raised,
          bytes |-> Head(parts).bytes \o rest.bytes]

verbatim(bytes) == [raised |-> FALSE, bytes |-> bytes]

\* lines 517-524 and 705-712: the eight header fields of a frame
frame_header(f) ==
    <<pack_I(f.Flipped), pack_I(f.Width), pack_I(f.Height), pack_i(f.OffsetX),
      pack_i(f.OffsetY), pack_I(f.Unknown), pack_I(f.NextBlock), pack_I(f.Length)>>

\* lines 517-530
dump_frame(f) ==
    packed(frame_header(f) \o <<verbatim(f.FrameData), verbatim(<<0, 0, 0>>)>>)

\* lines 705-714
to_bytes_frame(f) ==
    packed(frame_header(f) \o <<verbatim(f.FrameData), verbatim(f.Terminator)>>)

\* lines 510-511 and 699-700: n placeholder pointers
RECURSIVE pointers(_)
pointers(n) == IF n <= 0 THEN <<>> ELSE <<pack_I(0)>> \o pointers(n - 1)

RECURSIVE dump_frames(_)
dump_frames(frames) ==
    IF frames = <<>> THEN <<>>
    ELSE <<dump_frame(Head(frames))>> \o dump_frames(Tail(frames))

RECURSIVE to_bytes_frames(_)
to_bytes_frames(frames) ==
    IF frames = <<>> THEN <<>>
    ELSE <<to_bytes_frame(Head(frames))>> \o to_bytes_frames(Tail(frames))

dump(doc) ==
    LET num_directions == Len(doc.Directions)
        frames_per_direction ==
            IF num_directions > 0 THEN Len(doc.Directions[1]) ELSE 0
    IN packed(<<pack_I(doc.Version), pack_I(doc.Flags), pack_I(doc.Encoding),
                verbatim(<<0, 0, 0, 0>>),
                pack_I(num_directions), pack_I(frames_per_direction)>>
              \o pointers(num_directions * frames_per_direction)
              \o dump_frames(AllFrames(doc.Directions)))

RECURSIVE MaxFrameCount(_)
MaxFrameCount(Directions) ==
    IF Directions = <<>> THEN 0
    ELSE LET m == MaxFrameCount(Tail(Directions)) IN
         IF Len(Head(Directions)) > m THEN Len(Head(Directions)) ELSE m

to_bytes(doc) ==
    LET num_directions == Len(doc.Directions)
        frames_per_direction == MaxFrameCount(doc.Directions)
    IN packed(<<pack_i(doc.Version), pack_I(doc.Flags), pack_I(doc.Encoding),
                verbatim(doc.Termination),
                pack_I(num_directions), pack_I(frames_per_direction)>>
              \o pointers(num_directions * frames_per_direction)
              \o to_bytes_frames(AllFrames(doc.Directions)))

(***************************************************************************)
(* The DC6.frames setter: the document afterwards and whether ValueError   *)
(* was raised.  The directions are cleared before the frames are checked.  *)
(***************************************************************************)
\* mutant: only the width is checked
valid_frame_width_only(frame) == ~(frame.Width <= 0)

valid_frame(frame) == ~(frame.Width <= 0 \/ frame.Height <= 0)

set_frames(doc, new_frames) ==
    LET cleared == [i \in 1..Len(doc.Directions) |-> <<>>] IN
    IF \E i \in 1..Len(new_frames) : ~valid_frame(new_frames[i])
    THEN [raised |-> TRUE, doc |-> [doc EXCEPT !.Directions = cleared]]
    ELSE IF Len(cleared) > 0
    THEN [raised |-> FALSE,
          doc |-> [doc EXCEPT !.Directions = [cleared EXCEPT ![1] = @ \o new_frames]]]
    ELSE [raised |-> FALSE, doc |-> [doc EXCEPT !.Directions = <<new_frames>>]]

(***************************************************************************)
(* SpecFrame: decode_frame on every FrameData of at most MaxLen bytes and  *)
(* every Width, Height in 0..MaxDim.                                       *)
(***************************************************************************)
ByteSeqs(n) == UNION {[1..k -> ByteVals] : k \in 0..n}

msIdle == [data |-> <<>>, position |-> 0, ret |-> <<>>,
           start |-> 0, size |-> 0, asked |-> 0, calls |-> 0]
dcIdle ==
    [pc |-> "idle", input |-> <<>>, tolerable |-> FALSE, error |-> "",
     doc |-> DC6, position |-> 0, setter |-> "none", new_frames |-> <<>>,
     out |-> <<>>, reloaded |-> DC6, out2 |-> <<>>]

InitFrame ==
    /\ \E W \in 0..MaxDim, H \in 0..MaxDim, fd \in ByteSeqs(MaxLen) :
          df = dec_init(W, H, fd)
    /\ ms = msIdle
    /\ dc = dcIdle

WhileExit ==
    /\ df.pc = "while" /\ AtEnd(df)
    /\ df' = while_exit(df)
    /\ UNCHANGED <<ms, dc>>

EndOfLine ==
    /\ AtControl(df, END_OF_LINE)
    /\ df' = end_of_line(df)
    /\ UNCHANGED <<ms, dc>>

TransparentRun ==
    /\ AtControl(df, RUN_OF_TRANSPARENT_PIXELS)
    /\ df' = transparent_run(df)
    /\ UNCHANGED <<ms, dc>>

OpaqueRun ==
    /\ AtControl(df, RUN_OF_OPAQUE_PIXELS)
    /\ df' = opaque_run(df)
    /\ UNCHANGED <<ms, dc>>

OpaquePixel ==
    /\ InRun(df)
    /\ df' = opaque_pixel(df)
    /\ UNCHANGED <<ms, dc>>

OpaqueExit ==
    /\ df.pc = "for" /\ ~InRun(df)
    /\ df' = opaque_exit(df)
    /\ UNCHANGED <<ms, dc>>

NextFrame ==
    \/ WhileExit
    \/ EndOfLine
    \/ TransparentRun
    \/ OpaqueRun
    \/ OpaquePixel
    \/ OpaqueExit

SpecFrame == InitFrame /\ [][NextFrame]_vars

(***************************************************************************)
(* Reference reading of a well-formed scanline stream (the format, not the *)
(* decoder): the stream is split into rows of pixel values, a transparent  *)
(* pixel being 0.                                                          *)
(***************************************************************************)
RECURSIVE ParseRows(_, _, _, _, _)
ParseRows(fd, i, W, cur, rows) ==
    IF i > Len(fd) THEN [ok |-> cur = <<>>, rows |-> rows]
    ELSE LET b == fd[i] IN
         IF b = 128 THEN ParseRows(fd, i + 1, W, <<>>, Append(rows, cur))
         ELSE IF b > 128 THEN
              IF Len(cur) + (b - 128) > W THEN [ok |-> FALSE, rows |-> rows]
              ELSE ParseRows(fd, i + 1, W, cur \o Zeros(b - 128), rows)
         ELSE IF i + b > Len(fd) \/ Len(cur) + b > W THEN [ok |-> FALSE, rows |-> rows]
              ELSE ParseRows(fd, i + 1 + b, W, cur \o SubSeq(fd, i + 1, i + b), rows)

WellFormed(fd, W, H) ==
    /\ W >= 1 /\ H >= 1
    /\ LET p == ParseRows(fd, 1, W, <<>>, <<>>) IN p.ok /\ Len(p.rows) = H

\* The buffer the format describes: stream row r (0-based) is buffer row H-1-r.
ExpectedIndexData(fd, W, H) ==
    LET rows == ParseRows(fd, 1, W, <<>>, <<>>).rows IN
    [p \in 1..(W * H) |->
        LET row == (p - 1) \div W
            col == (p - 1) % W
            line == rows[H - row]
        IN IF col + 1 <= Len(line) THEN line[col + 1] ELSE 0]

\* The index (1-based) of the last control byte when it announces an opaque
\* run longer than the bytes that follow it; 0 when there is none.
RECURSIVE TruncatedTail(_, _)
TruncatedTail(fd, i) ==
    IF i > Len(fd) THEN 0
    ELSE LET b == fd[i] IN
         IF b >= 128 THEN TruncatedTail(fd, i + 1)
         ELSE IF i + b > Len(fd) THEN i
         ELSE TruncatedTail(fd, i + 1 + b)

InBuffer(d, p) == 0 <= p /\ p < d.Width * d.Height

(***************************************************************************)
(* Claims about Frame.decode_frame (checked under SpecFrame)               *)
(***************************************************************************)

\* C1: decode_frame never raises, for every FrameData and every Width >= 0,
\* Height >= 0: out-of-range run data is absorbed.
C1_DecodeFrameNeverRaises == df.pc # "raised"

\* C4: on a well-formed stream (exactly Height scanlines, runs summing to at
\* most Width, each ended by 0x80) decode_frame does not raise and yields the
\* buffer in which stream row r is buffer row Height-1-r, opaque pixels at
\* their x position, every other position 0.
C4_WellFormedFidelity ==
    WellFormed(df.FrameData, df.Width, df.Height) =>
        /\ df.pc # "raised"
        /\ df.pc = "done" =>
              df.IndexData = ExpectedIndexData(df.FrameData, df.Width, df.Height)

\* C4 witness: a decoded well-formed stream of two rows with a transparent
\* run followed by an opaque pixel, which lands in the last buffer row.
C4_Witness ==
    /\ df.pc = "done"
    /\ WellFormed(df.FrameData, df.Width, df.Height)
    /\ df.Width = 2 /\ df.Height = 2
    /\ df.FrameData = <<129, 1, 2, 128, 128>>
    /\ df.IndexData = <<0, 0, 0, 2>>

\* C5: when the last control byte announces an opaque run of n pixels and only
\* k < n bytes follow, decode_frame completes without error, reads no byte
\* past the end of FrameData, and the k bytes sit at the run's k successive
\* in-range positions.
C5_TruncatedRunAbsorbed ==
    LET fd == df.FrameData
        c == TruncatedTail(fd, 1)
        k == Len(fd) - c
    IN c > 0 =>
        /\ df.pc # "raised"
        /\ df.offset <= Len(fd)
        /\ (df.pc = "done" /\ df.offset = Len(fd)) =>
              \A j \in 1..k :
                  LET p == (df.x - k + j - 1) + df.y * df.Width IN
                  InBuffer(df, p) => df.IndexData[p + 1] = fd[c + j]

\* C6: a pixel whose position x + y*Width is negative or >= Width*Height
\* modifies no element of the index buffer and does not abort the decoding.
C6_OutOfRangePixelDropped ==
    [][(InRun(df) /\ ~InBuffer(df, pixel_index(df))) =>
          (df'.index_data = df.index_data /\ df'.pc # "raised")]_vars

(***************************************************************************)
(* SpecStream: a MemoryStream over every buffer of at most MaxData bytes,  *)
(* read MaxCalls times with sizes in 0..MaxRead.  start, size and asked    *)
(* record the calls made: the position before the last read, its size, and *)
(* the sum of all sizes.                                                   *)
(***************************************************************************)
dfIdle == dec_init(0, 0, <<>>)

InitStream ==
    /\ \E data \in ByteSeqs(MaxData) :
          ms = [data |-> data, position |-> 0, ret |-> <<>>,
                start |-> 0, size |-> 0, asked |-> 0, calls |-> 0]
    /\ df = dfIdle
    /\ dc = dcIdle

Read ==
    /\ ms.calls < MaxCalls
    /\ \E size \in 0..MaxRead :
          LET r == read(ms.data, ms.position, size) IN
          ms' = [ms EXCEPT !.ret = r.ret, !.position = r.position,
                           !.start = ms.position, !.size = size,
                           !.asked = ms.asked + size, !.calls = ms.calls + 1]
    /\ UNCHANGED <<df, dc>>

NextStream == Read

SpecStream == InitStream /\ [][NextStream]_vars

\* C10: read(n) returns data[position : position+n] clipped to the end of the
\* buffer (never an error) and advances position by exactly n, so position is
\* the sum of the requested sizes even past the end of the buffer.
C10_ReadClipsAndAdvances ==
    /\ ms.position = ms.asked
    /\ ms.calls > 0 =>
          LET left == Len(ms.data) - ms.start
              n == IF left <= 0 THEN 0 ELSE IF ms.size < left THEN ms.size ELSE left
          IN /\ Len(ms.ret) = n
             /\ \A i \in 1..n : ms.ret[i] = ms.data[ms.start + i]

\* C10 witness: a short read (fewer bytes than asked, some returned) that left
\* the position past the end of the buffer.
C10_Witness ==
    /\ ms.calls > 0
    /\ Len(ms.ret) > 0 /\ Len(ms.ret) < ms.size
    /\ ms.position > Len(ms.data)
    /\ ms.position = ms.asked

(***************************************************************************)
(* Spec: a session with one DC6 document.  The document is either built    *)
(* by DC6() or returned by from_bytes on a given input; the frames setter  *)
(* may be used on it once; it is then dumped, the dump is read back with   *)
(* from_bytes, and the result is dumped again.                             *)
(***************************************************************************)
\* Frames of the documents given to from_bytes.  Every byte is below 128, so
\* that every uint32 read from them stays below 2^31.
sample(Width, Height, FrameData) ==
    [Frame EXCEPT !.Width = Width, !.Height = Height, !.OffsetX = 1, !.OffsetY = 2,
                  !.Length = Len(FrameData), !.FrameData = FrameData,
                  !.Terminator = <<0, 0, 0>>]

CleanSamples ==
    {sample(1, 1, <<1, 2>>),            \* one opaque pixel
     sample(2, 2, <<2, 1, 2>>),         \* two opaque pixels in the first stream row
     sample(0, 0, <<>>)}                \* no pixels

SampleFrames ==
    CleanSamples \cup {sample(1, 1, <<2, 1, 2>>)}   \* a run longer than the row

\* A document of nd directions of fpd frames, frames a and b alternating, each
\* tagged with its position in the stream; short leaves out the last frame.
seed_frame(a, b, idx) == [(IF idx % 2 = 0 THEN a ELSE b) EXCEPT !.Unknown = idx]

seed_document(nd, fpd, a, b, short) ==
    [DC6 EXCEPT
        !.Version = 6, !.Flags = 1,
        !.Directions =
            [d \in 1..nd |->
                [f \in 1..(IF short /\ d = nd /\ fpd > 0 THEN fpd - 1 ELSE fpd) |->
                    seed_frame(a, b, (d - 1) * fpd + (f - 1))]]]

\* an input with its numDirections field overwritten by 0
zero_directions(bytes) ==
    [i \in 1..Len(bytes) |-> IF i \in 17..20 THEN 0 ELSE bytes[i]]

\* the document with a header termination and frame terminators that are not 0
with_trailers(doc) ==
    [doc EXCEPT
        !.Termination = <<1, 2, 3, 4>>,
        !.Directions =
            [d \in 1..Len(doc.Directions) |->
                [f \in 1..Len(doc.Directions[d]) |->
                    [doc.Directions[d][f] EXCEPT !.Terminator = <<5, 6, 7>>]]]]

\* "valid": the serialized document; "short": its last frame record left out;
\* "zero_directions": numDirections overwritten by 0; "trailers": termination
\* and terminators not 0; "negative_version": version bytes FF FF FF FF.
Variants == {"valid", "short", "zero_directions", "trailers", "negative_version"}

\* The prefix lengths tried: every cut inside the header and the counts (the
\* first 24 bytes), and the cuts of at most MaxCut bytes off the end.
Cuts(whole) == {n \in 0..Len(whole) : n <= 24 \/ n >= Len(whole) - MaxCut}

input_bytes(nd, fpd, a, b, variant) ==
    LET seed == seed_document(nd, fpd, a, b, variant = "short")
        doc == IF variant = "trailers" THEN with_trailers(seed)
               ELSE IF variant = "negative_version" THEN [seed EXCEPT !.Version = -1]
               ELSE seed
        whole == to_bytes(doc).bytes
    IN IF variant = "zero_directions" THEN zero_directions(whole) ELSE whole

\* Frames built by the caller for the frames setter
ProgFrames ==
    {[sample(1, 1, <<1, 2>>) EXCEPT !.Terminator = <<>>],
     [sample(1, 1, <<1, 2>>) EXCEPT !.Terminator = <<>>, !.Length = 0],  \* Length not updated
     [sample(0, 1, <<>>) EXCEPT !.Terminator = <<>>],
     [sample(1, -1, <<>>) EXCEPT !.Terminator = <<>>]}

\* The lists assigned: a frame with a stale Length only in the last place
NewFrameLists ==
    {l \in UNION {[1..k -> ProgFrames] : k \in 0..MaxNew} :
        \A i \in 1..(Len(l) - 1) : l[i].Length = Len(l[i].FrameData)}

Init ==
    /\ dc = [dcIdle EXCEPT !.pc = "new"]
    /\ df = dfIdle
    /\ ms = msIdle

\* doc = DC6.from_bytes(input)
FromBytes ==
    /\ dc.pc = "new"
    /\ dc.setter = "none"
    /\ \E nd \in 0..MaxDirs, fpd \in 0..MaxFrames, a \in SampleFrames, b \in SampleFrames,
          variant \in Variants :
          \E whole \in {input_bytes(nd, fpd, a, b, variant)} :
          \E cut \in Cuts(whole) :
          \E r \in {from_bytes(SubSeq(whole, 1, cut))} :
                dc' = [dc EXCEPT
                          !.pc = IF r.error = "" THEN "loaded" ELSE "raised",
                          !.input = SubSeq(whole, 1, cut),
                          !.tolerable = variant # "zero_directions"
                                        /\ a \in CleanSamples /\ b \in CleanSamples,
                          !.error = r.error, !.doc = r.doc, !.position = r.position]
    /\ UNCHANGED <<df, ms>>

\* doc.frames = new_frames
SetFrames ==
    /\ dc.pc \in {"new", "loaded"}
    /\ dc.setter = "none"
    /\ \E new_frames \in NewFrameLists :
          \E r \in {set_frames(dc.doc, new_frames)} :
          dc' = [dc EXCEPT !.setter = IF r.raised THEN "rejected" ELSE "accepted",
                           !.new_frames = new_frames, !.doc = r.doc]
    /\ UNCHANGED <<df, ms>>

\* out = doc.dump()
Dump ==
    /\ dc.pc \in {"new", "loaded"}
    /\ \E r \in {dump(dc.doc)} :
       dc' = [dc EXCEPT !.pc = IF r.raised THEN "dump_raised" ELSE "dumped",
                        !.out = IF r.raised THEN <<>> ELSE r.bytes]
    /\ UNCHANGED <<df, ms>>

\* reloaded = DC6.from_bytes(out)
Reload ==
    /\ dc.pc = "dumped"
    /\ \E r \in {from_bytes(dc.out)} :
       dc' = [dc EXCEPT !.pc = IF r.error = "" THEN "reloaded" ELSE "reload_raised",
                        !.reloaded = r.doc]
    /\ UNCHANGED <<df, ms>>

\* out2 = reloaded.dump()
Redump ==
    /\ dc.pc = "reloaded"
    /\ \E r \in {dump(dc.reloaded)} :
       dc' = [dc EXCEPT !.pc = IF r.raised THEN "redump_raised" ELSE "redumped",
                        !.out2 = IF r.raised THEN <<>> ELSE r.bytes]
    /\ UNCHANGED <<df, ms>>

Next ==
    \/ FromBytes
    \/ SetFrames
    \/ Dump
    \/ Reload
    \/ Redump

Spec == Init /\ [][Next]_vars

(***************************************************************************)
(* Claims about the document (checked under Spec)                          *)
(***************************************************************************)
FramesOf(doc) == AllFrames(doc.Directions)

\* the header fields and the payload of a frame, as dump writes them
SameFrame(f, g) ==
    /\ f.Flipped = g.Flipped /\ f.Width = g.Width /\ f.Height = g.Height
    /\ f.OffsetX = g.OffsetX /\ f.OffsetY = g.OffsetY
    /\ f.Unknown = g.Unknown /\ f.NextBlock = g.NextBlock
    /\ f.Length = g.Length /\ f.FrameData = g.FrameData

SameDocument(d, e) ==
    /\ d.Version = e.Version /\ d.Flags = e.Flags /\ d.Encoding = e.Encoding
    /\ Len(d.Directions) = Len(e.Directions)
    /\ \A i \in 1..Len(d.Directions) :
          /\ Len(d.Directions[i]) = Len(e.Directions[i])
          /\ \A j \in 1..Len(d.Directions[i]) :
                SameFrame(d.Directions[i][j], e.Directions[i][j])

\* C2: for every document on which dump succeeds, from_bytes of the dump
\* succeeds and yields the same header fields and, per direction and frame
\* position, the same frame header fields and FrameData; dumping the result
\* reproduces the first dump byte for byte.
C2_RoundTrip ==
    /\ dc.pc # "reload_raised"
    /\ dc.pc \in {"reloaded", "redumped"} => SameDocument(dc.doc, dc.reloaded)
    /\ dc.pc # "redump_raised"
    /\ dc.pc = "redumped" => dc.out2 = dc.out

\* C3: from_bytes returns a document, rather than raising, for every prefix
\* of a valid serialized document and for every input that announces more
\* frames than it contains.
C3_TruncatedInputTolerated == dc.tolerable => dc.pc # "raised"

\* C7: every frame of a document returned by from_bytes has IndexData, of
\* length Width*Height (empty when Width or Height is 0).
IndexDataSized(doc) ==
    \A i \in 1..Len(FramesOf(doc)) :
        LET f == FramesOf(doc)[i] IN
        /\ f.IndexData # None
        /\ Len(f.IndexData) = f.Width * f.Height

C7_IndexDataSize ==
    /\ (dc.pc = "loaded" /\ dc.setter = "none") => IndexDataSized(dc.doc)
    /\ dc.pc \in {"reloaded", "redumped"} => IndexDataSized(dc.reloaded)

\* C7 witness: from_bytes returned a document holding a frame without pixels
\* (empty IndexData) and a 2x2 frame with its 4 index bytes, from an input cut
\* short inside the last frame's data.
C7_Witness ==
    /\ dc.pc = "loaded" /\ dc.setter = "none"
    /\ \E i, j \in 1..Len(FramesOf(dc.doc)) :
          /\ FramesOf(dc.doc)[i].Width = 0 /\ FramesOf(dc.doc)[i].IndexData = <<>>
          /\ FramesOf(dc.doc)[j].Width = 2 /\ FramesOf(dc.doc)[j].IndexData = <<0, 0, 1, 0>>
          /\ Len(FramesOf(dc.doc)[j].FrameData) < FramesOf(dc.doc)[j].Length

\* C8: the frames setter raises exactly when some supplied frame has
\* Width <= 0 or Height <= 0; otherwise it places every supplied frame, in
\* order, into the document.
C8_SetterValidates ==
    dc.setter # "none" =>
        /\ dc.setter = "rejected" <=>
              \E i \in 1..Len(dc.new_frames) :
                  dc.new_frames[i].Width <= 0 \/ dc.new_frames[i].Height <= 0
        /\ dc.setter = "accepted" => FramesOf(dc.doc) = dc.new_frames

\* C8 witnesses: a list of two frames accepted into a document that from_bytes
\* returned with two directions, and a list rejected for a Height of -1.
C8_Witness ==
    /\ dc.setter = "accepted"
    /\ Len(dc.new_frames) = 2
    /\ Len(dc.doc.Directions) = 2
    /\ dc.doc.Directions[1] = dc.new_frames

C8_WitnessRejected ==
    /\ dc.setter = "rejected"
    /\ \E i \in 1..Len(dc.new_frames) :
          dc.new_frames[i].Width > 0 /\ dc.new_frames[i].Height < 0

\* C9: an input whose numDirections field is 0 decodes, whatever its
\* framesPerDirection, to a document without directions, and the cursor stops
\* at byte 24: no pointer slot and no frame data is read.
ZeroDirections(input) ==
    /\ Len(input) >= 24
    /\ \A i \in 17..20 : input[i] = 0

C9_NoDirectionsNoReads ==
    (dc.pc \in {"loaded", "raised"} /\ dc.setter = "none" /\ ZeroDirections(dc.input)) =>
        /\ dc.pc = "loaded"
        /\ dc.doc.Directions = <<>>
        /\ dc.position = 24

\* C9 witness: such an input with framesPerDirection = 2 and frame records
\* after the counts.
C9_Witness ==
    /\ dc.pc = "loaded" /\ dc.setter = "none"
    /\ ZeroDirections(dc.input)
    /\ dc.input[21] = 2
    /\ Len(dc.input) > 24
    /\ dc.position = 24

(***************************************************************************)
(* The layout of a serialized document, used to find the fields of a dump  *)
(* or of an input: the counts at bytes 16..23, the pointer slots from byte *)
(* 24, then the frame records, each of 32 header bytes, its data bytes and *)
(* 3 terminator bytes.  Offsets count from 0.                              *)
(***************************************************************************)
Field(bytes, offset, n) == SubSeq(bytes, offset + 1, offset + n)

CountOf(bytes, offset) == unpack_I(Field(bytes, offset, 4)).value

\* offset of the k-th record (k from 1) when the records hold the data of frames
RECURSIVE RecordStart(_, _, _)
RecordStart(bytes, frames, k) ==
    IF k <= 1 THEN 24 + 4 * CountOf(bytes, 16) * CountOf(bytes, 20)
    ELSE RecordStart(bytes, frames, k - 1) + 32 + Len(frames[k - 1].FrameData) + 3

\* the document was returned by from_bytes and not modified since
Decoded == Len(dc.input) >= 24 /\ dc.error = "" /\ dc.setter = "none"

\* C11: for every frame written by dump, the length field of its record is
\* the number of FrameData bytes written after it, whatever the frame's
\* stored Length.
C11_LengthRecomputed ==
    dc.pc = "dumped" =>
        \A k \in 1..Len(FramesOf(dc.doc)) :
            CountOf(dc.out, RecordStart(dc.out, FramesOf(dc.doc), k) + 28)
                = Len(FramesOf(dc.doc)[k].FrameData)

\* C12: for a document returned by from_bytes, dump writes as the header
\* termination the Termination bytes read and as each frame's terminator the
\* 3 Terminator bytes read for that frame.
C12_TrailersVerbatim ==
    (dc.pc = "dumped" /\ Decoded) =>
        /\ Field(dc.out, 12, 4) = dc.doc.Termination
        /\ \A k \in 1..Len(FramesOf(dc.doc)) :
              LET f == FramesOf(dc.doc)[k]
                  at == RecordStart(dc.out, FramesOf(dc.doc), k) + 32 + Len(f.FrameData)
              IN Len(f.Terminator) = TERMINATOR_SIZE =>
                    Field(dc.out, at, TERMINATOR_SIZE) = f.Terminator

\* C13: when from_bytes returns, the document has numDirections directions of
\* framesPerDirection frames each, and the idx-th frame record of the input
\* is frame idx mod framesPerDirection of direction idx div framesPerDirection
\* (the records of the inputs carry idx in their Unknown field).
C13_DirectionMajorPlacement ==
    (dc.pc = "loaded" /\ Decoded) =>
        LET nd == CountOf(dc.input, 16)
            fpd == CountOf(dc.input, 20)
            Directions == dc.doc.Directions
        IN /\ Len(Directions) = nd
           /\ \A d \in 1..nd :
                 /\ Len(Directions[d]) = fpd
                 /\ \A j \in 1..fpd :
                       LET idx == (d - 1) * fpd + (j - 1)
                           at == RecordStart(dc.input, FramesOf(dc.doc), idx + 1)
                       IN /\ Directions[d][j].Unknown = idx
                          /\ Field(dc.input, at + 20, 4) = LE4(idx)

\* C13 witness: an input of 2 directions of 2 frames was decoded; the third
\* record of the input is the first frame of the second direction.
C13_Witness ==
    /\ dc.pc = "loaded" /\ Decoded
    /\ CountOf(dc.input, 16) = 2 /\ CountOf(dc.input, 20) = 2
    /\ Len(dc.doc.Directions) = 2
    /\ Len(dc.doc.Directions[2]) = 2
    /\ dc.doc.Directions[2][1].Unknown = 2
    /\ dc.doc.Directions[1][2].Unknown = 1

\* C14: dump writes numDirections = the number of directions and
\* framesPerDirection = the frame count of the first direction, then
\* numDirections*framesPerDirection zero pointer slots, then exactly that many
\* frame records, the frames of the directions in order.
C14_DumpLayout ==
    dc.pc = "dumped" =>
        LET nd == CountOf(dc.out, 16)
            fpd == CountOf(dc.out, 20)
            frames == FramesOf(dc.doc)
        IN /\ nd = Len(dc.doc.Directions)
           /\ fpd = (IF nd > 0 THEN Len(dc.doc.Directions[1]) ELSE 0)
           /\ \A i \in 25..(24 + 4 * nd * fpd) : i <= Len(dc.out) /\ dc.out[i] = 0
           /\ Len(frames) = nd * fpd
           /\ Len(dc.out) = RecordStart(dc.out, frames, Len(frames) + 1)
           /\ \A k \in 1..Len(frames) :
                 LET at == RecordStart(dc.out, frames, k) IN
                 /\ Field(dc.out, at + 4, 4) = LE4(frames[k].Width)
                 /\ Field(dc.out, at + 20, 4) = LE4(frames[k].Unknown)
                 /\ Field(dc.out, at + 32, Len(frames[k].FrameData)) = frames[k].FrameData

\* C15: when the frames setter raises, every direction of the document holds
\* the frames it held before the call.
C15_RejectedSetterKeepsFrames ==
    [][(dc.setter = "none" /\ dc'.setter = "rejected")
          => dc'.doc.Directions = dc.doc.Directions]_vars

\* C16: dump of a document returned by from_bytes does not raise and writes
\* the version, flags and encoding fields as the 12 bytes that were read.
C16_DecodedDocumentDumps ==
    (dc.pc \in {"dumped", "dump_raised"} /\ Decoded) =>
        /\ dc.pc = "dumped"
        /\ Field(dc.out, 0, 12) = Field(dc.input, 0, 12)

=============================================================================
